---- MODULE Spec2Model ----
(***************************************************************************)
(* Storm SaaS backend: the subscription ledger (app/routers/subscriptions), *)
(* registration (app/routers/auth) and the tables they use (app/models).    *)
(*                                                                          *)
(* The database is the shared state.  Every request runs in a worker with   *)
(* its own SQLAlchemy session (app/database.py get_db): a query loads a     *)
(* snapshot of a row into the session, attribute assignments stay local,    *)
(* and db.commit() flushes an UPDATE of the attributes whose value differs  *)
(* from the loaded one.  A handler is therefore a sequence of steps, one    *)
(* per database statement or outbound payment-processor call.               *)
(*                                                                          *)
(*   Spec      one worker process (main.py uvicorn.run): handlers run one   *)
(*             after the other.                                             *)
(*   SpecConc  several workers on the same database: the steps of           *)
(*             different requests interleave.                               *)
(*   SpecAccounts  registration and lazy creation, several workers.         *)
(*   SpecInvoices  billing events of two subscriptions, several workers.    *)
(*   SpecReversal  cancel, then reactivate, one worker.                     *)
(*   SpecCheckout  checkout sessions next to billing events, several        *)
(*             workers.                                                     *)
(*   SpecKeys  the API key registry (app/routers/dashboard), one worker.    *)
(*   SpecKeysConc  the registry and plan changes, several workers.          *)
(*   SpecUsage the usage report (get_subscription_usage), one worker.       *)
(***************************************************************************)
EXTENDS Integers, Sequences, FiniteSets, TLC

VARIABLES
    users,          \* table "users": sequence of rows, id = position
    subscriptions,  \* table "subscriptions": sequence of rows, id = position
    now,            \* the wall clock read by datetime.utcnow()
    req,            \* per worker: the request it is handling and its locals
    delivered,      \* webhook events that were applied to a subscription
    last_applied,   \* the event applied last, if nothing was written since
    api_keys,       \* table "api_keys": sequence of rows, id = position
    usage,          \* table "usage": sequence of rows, id = position
    before_cancel   \* history: the row a cancel changed, until the next
                    \* request that is not the owner's reactivate

vars == <<users, subscriptions, now, req, delivered, last_applied,
          api_keys, usage, before_cancel>>

----------------------------------------------------------------------------
(* Bounds of the model *)

MaxUsers == 2
NumWorkers == 3
BillingWorkers == 2
MaxTime == 1

(* timedelta(days=30) *)
PeriodDays == 30

Workers == 1..NumWorkers

(* Registration inputs (schemas.UserCreate: email, username); the i-th      *)
(* address and the i-th name are written i.                                 *)
Emails == {1, 2}
Usernames == {1, 2}
UserCreate == [email : Emails, username : Usernames]

----------------------------------------------------------------------------
(* app/models.py *)

SubscriptionStatus == {"active", "inactive", "cancelled", "past_due"}
SubscriptionPlan == {"free", "basic", "premium", "enterprise"}

None == "None"
NoTime == <<>>
At(t) == <<t>>

(* Column user_id is declared unique=True: the database refuses a second   *)
(* row for the same user (IntegrityError at commit).                        *)
UniqueUserIdBroken(rows, user_id) == TRUE
UniqueUserId(rows, user_id) ==
    \A i \in DOMAIN rows : rows[i].user_id # user_id

(* Subscription(user_id=..., plan=..., status=...): the other columns are   *)
(* nullable and start as NULL.                                              *)
Subscription(user_id, plan, status) ==
    [user_id |-> user_id, plan |-> plan, status |-> status,
     stripe_customer_id |-> None, stripe_subscription_id |-> None,
     current_period_start |-> NoTime, current_period_end |-> NoTime]

NoRow == Subscription(0, "free", "inactive")

(* Columns email and username of users are unique=True.                     *)
UniqueUser(rows, data) ==
    \A i \in DOMAIN rows :
        rows[i].email # data.email /\ rows[i].username # data.username

----------------------------------------------------------------------------
(* Queries *)

(* db.query(Subscription).filter(Subscription.user_id == id): ids of the    *)
(* matching rows.                                                           *)
ByUserId(rows, user_id) == {i \in DOMAIN rows : rows[i].user_id = user_id}

(* filter(Subscription.stripe_subscription_id == sid); comparing with None  *)
(* is rendered IS NULL, so a null id matches the rows without one.          *)
ByStripeSubscriptionId(rows, sid) ==
    {i \in DOMAIN rows : rows[i].stripe_subscription_id = sid}

(* filter((User.email == e) | (User.username == n)) *)
ExistingUsers(rows, data) ==
    {i \in DOMAIN rows :
        rows[i].email = data.email \/ rows[i].username = data.username}

----------------------------------------------------------------------------
(* Session *)

Columns == {"user_id", "plan", "status", "stripe_customer_id",
            "stripe_subscription_id", "current_period_start",
            "current_period_end"}

(* db.commit() after attribute assignments: the UPDATE sets the columns     *)
(* whose assigned value differs from the loaded one and leaves the others   *)
(* as they are in the table now.                                            *)
Flush(stored, loaded, assigned) ==
    [c \in Columns |->
        IF assigned[c] # loaded[c] THEN assigned[c] ELSE stored[c]]

----------------------------------------------------------------------------
(* Requests *)

NoData == [email |-> 0, username |-> 0]
(* An event object: missing holds the keys the payload does not have.     *)
NoEvent == [type |-> "none", user_id |-> 0, plan |-> "free",
            subscription |-> None, period_start |-> 0, period_end |-> 0,
            missing |-> {}]
NoResponse == [status_code |-> 0, detail |-> ""]
NoReport == [current_usage |-> 0, limit |-> 0]

(* The locals of a request: constructed is the outcome of                   *)
(* construct_event, key_id the path parameter of delete_api_key, plan and   *)
(* current_key_count the locals of create_api_key, exposed the key          *)
(* material in the response body, report the body of the usage report.      *)
Idle == [handler |-> "none", pc |-> "done", current_user |-> 0,
         user_data |-> NoData, event |-> NoEvent,
         row |-> 0, subscription |-> NoRow, assigned |-> NoRow,
         stripe_called |-> FALSE, response |-> NoResponse,
         constructed |-> "ok", key_id |-> 0, plan |-> "free",
         current_key_count |-> 0, exposed |-> {}, report |-> NoReport]

Response(code, detail) == [status_code |-> code, detail |-> detail]

(* A worker takes a new request when it is not in the middle of one.        *)
Free(p) == req[p].pc = "done"

Start(handler) == [Idle EXCEPT !.handler = handler]

Finish(r, code, detail) ==
    [r EXCEPT !.pc = "done", !.user_data = NoData, !.row = 0,
              !.subscription = NoRow, !.assigned = NoRow,
              !.response = Response(code, detail)]

(* The empty database.                                                      *)
Init ==
    /\ users = <<>>
    /\ subscriptions = <<>>
    /\ now = 0
    /\ req = [p \in Workers |-> Idle]
    /\ delivered = {}
    /\ last_applied = {}
    /\ api_keys = <<>>
    /\ usage = <<>>
    /\ before_cancel = {}

(* The database after MaxUsers registrations (register, auth.py 39-59).     *)
InitRegistered ==
    /\ users = [i \in 1..MaxUsers |-> [email |-> i, username |-> i]]
    /\ subscriptions = [i \in 1..MaxUsers |-> Subscription(i, "free", "active")]
    /\ now = 0
    /\ req = [p \in Workers |-> Idle]
    /\ delivered = {}
    /\ last_applied = {}
    /\ api_keys = <<>>
    /\ usage = <<>>
    /\ before_cancel = {}

----------------------------------------------------------------------------
(* app/routers/auth.py register *)

(* The registrations that passed the duplicate check and have not yet      *)
(* inserted their user.                                                     *)
Registering == {q \in Workers : req[q].pc = "register_insert_user"}

(* Lines 22-37: the duplicate check; a taken email or username is a 400.    *)
register_check(p, user_data) ==
    /\ Free(p)
    /\ Len(users) + Cardinality(Registering) < MaxUsers
    /\ IF ExistingUsers(users, user_data) # {}
       THEN req' = [req EXCEPT ![p] =
                Finish([Start("register") EXCEPT !.user_data = user_data],
                       400,
                       IF \E i \in ExistingUsers(users, user_data) :
                              users[i].email = user_data.email
                       THEN "Email already registered"
                       ELSE "Username already taken")]
       ELSE req' = [req EXCEPT ![p] =
                [Start("register") EXCEPT !.user_data = user_data,
                                          !.pc = "register_insert_user"]]
    /\ UNCHANGED <<users, subscriptions, now, delivered, last_applied>>

(* Lines 39-50: db.add(db_user); db.commit(); db.refresh(db_user).          *)
register_insert_user(p) ==
    /\ req[p].pc = "register_insert_user"
    /\ IF UniqueUser(users, req[p].user_data)
       THEN /\ users' = Append(users, req[p].user_data)
            /\ req' = [req EXCEPT ![p].current_user = Len(users) + 1,
                                  ![p].pc = "register_insert_subscription"]
       ELSE /\ req' = [req EXCEPT ![p] = Finish(@, 500, "IntegrityError")]
            /\ UNCHANGED users
    /\ UNCHANGED <<subscriptions, now, delivered, last_applied>>

register_without_subscription(p) ==
    /\ req[p].pc = "register_insert_subscription"
    /\ req' = [req EXCEPT ![p] = Finish(@, 201, "")]
    /\ last_applied' = {}
    /\ UNCHANGED <<users, subscriptions, now, delivered>>

(* Lines 52-61: the default subscription, then the 201 response.            *)
register_insert_subscription(p) ==
    /\ req[p].pc = "register_insert_subscription"
    /\ IF UniqueUserId(subscriptions, req[p].current_user)
       THEN /\ subscriptions' = Append(subscriptions,
                    Subscription(req[p].current_user, "free", "active"))
            /\ req' = [req EXCEPT ![p] = Finish(@, 201, "")]
       ELSE /\ req' = [req EXCEPT ![p] = Finish(@, 500, "IntegrityError")]
            /\ UNCHANGED subscriptions
    /\ last_applied' = {}
    /\ UNCHANGED <<users, now, delivered>>

----------------------------------------------------------------------------
(* app/routers/subscriptions.py get_current_subscription *)

(* Lines 62-66 and 77: the query; an existing row is returned.              *)
get_current_subscription(p, current_user) ==
    /\ Free(p)
    /\ current_user \in DOMAIN users
    /\ IF ByUserId(subscriptions, current_user) # {}
       THEN req' = [req EXCEPT ![p] =
                Finish([Start("get_current_subscription")
                            EXCEPT !.current_user = current_user], 200, "")]
       ELSE req' = [req EXCEPT ![p] =
                [Start("get_current_subscription")
                    EXCEPT !.current_user = current_user,
                           !.pc = "current_insert"]]
    /\ UNCHANGED <<users, subscriptions, now, delivered, last_applied>>

(* Lines 67-77: no row was found: insert the free/active default.           *)
current_insert(p) ==
    /\ req[p].pc = "current_insert"
    /\ IF UniqueUserId(subscriptions, req[p].current_user)
       THEN /\ subscriptions' = Append(subscriptions,
                    Subscription(req[p].current_user, "free", "active"))
            /\ req' = [req EXCEPT ![p] = Finish(@, 200, "")]
       ELSE /\ req' = [req EXCEPT ![p] = Finish(@, 500, "IntegrityError")]
            /\ UNCHANGED subscriptions
    /\ last_applied' = {}
    /\ UNCHANGED <<users, now, delivered>>

----------------------------------------------------------------------------
(* Query.first(): the row found, or 0 for None.  Without ORDER BY the       *)
(* database may return any of the matching rows.                            *)
First(matching) == IF matching = {} THEN {0} ELSE matching

(* An outbound stripe.Subscription.modify call returns or raises            *)
(* stripe.error.StripeError.                                                *)
StripeOutcomes == {"ok", "StripeError"}

----------------------------------------------------------------------------
(* app/routers/subscriptions.py create_checkout_session *)

(* customer.id of stripe.Customer.create: the processor makes a new         *)
(* customer for every call, so calls in flight at the same time, which are  *)
(* in different workers, get different ids.                                 *)
CustomerId(p) == <<"cus_", p>>

create_checkout_session_setting_plan(p, current_user, plan) ==
    /\ Free(p)
    /\ current_user \in DOMAIN users
    /\ plan # "free"
    /\ \E i \in ByUserId(subscriptions, current_user) :
         subscriptions' = [subscriptions EXCEPT ![i].plan = plan]
    /\ req' = [req EXCEPT ![p] =
            Finish([Start("create_checkout_session")
                        EXCEPT !.current_user = current_user, !.plan = plan],
                   200, "checkout_url")]
    /\ last_applied' = {}
    /\ UNCHANGED <<users, now, delivered>>

(* Lines 86-107: the free plan is refused (every member of SubscriptionPlan *)
(* is a key of SUBSCRIPTION_PLANS, so the second check never fails); then   *)
(* the query, and the customer id of the row if it has one.                 *)
create_checkout_session(p, current_user, plan) ==
    /\ Free(p)
    /\ current_user \in DOMAIN users
    /\ LET r == [Start("create_checkout_session")
                    EXCEPT !.current_user = current_user, !.plan = plan] IN
       IF plan = "free"
       THEN req' = [req EXCEPT ![p] =
                Finish(r, 400, "Cannot create checkout session for free plan")]
       ELSE \E i \in First(ByUserId(subscriptions, current_user)) :
            req' = [req EXCEPT ![p] =
                IF i = 0 THEN [r EXCEPT !.pc = "checkout_customer"]
                ELSE [r EXCEPT !.row = i, !.subscription = subscriptions[i],
                               !.assigned = subscriptions[i],
                               !.pc = IF subscriptions[i].stripe_customer_id # None
                                      THEN "checkout_session"
                                      ELSE "checkout_customer"]]
    /\ UNCHANGED <<users, subscriptions, now, delivered, last_applied>>

(* Lines 109-119 and 141-145: stripe.Customer.create; its id is assigned    *)
(* to the row, if there is one.                                             *)
checkout_customer(p, outcome) ==
    /\ req[p].pc = "checkout_customer"
    /\ req' = [req EXCEPT ![p] =
            IF outcome # "ok"
            THEN Finish([@ EXCEPT !.stripe_called = TRUE], 400, "Stripe error")
            ELSE IF req[p].row = 0
            THEN [@ EXCEPT !.stripe_called = TRUE, !.pc = "checkout_session"]
            ELSE [@ EXCEPT !.stripe_called = TRUE,
                           !.assigned.stripe_customer_id = CustomerId(p),
                           !.pc = "checkout_commit"]]
    /\ UNCHANGED <<users, subscriptions, now, delivered, last_applied>>

(* Line 120: db.commit().                                                   *)
checkout_commit(p) ==
    /\ req[p].pc = "checkout_commit"
    /\ subscriptions' = [subscriptions EXCEPT ![req[p].row] =
            Flush(@, req[p].subscription, req[p].assigned)]
    /\ req' = [req EXCEPT ![p].pc = "checkout_session"]
    /\ last_applied' = {}
    /\ UNCHANGED <<users, now, delivered>>

(* Lines 123-145: stripe.checkout.Session.create, then the checkout url.    *)
checkout_session(p, outcome) ==
    /\ req[p].pc = "checkout_session"
    /\ req' = [req EXCEPT ![p] =
            IF outcome = "ok"
            THEN Finish([@ EXCEPT !.stripe_called = TRUE], 200, "checkout_url")
            ELSE Finish([@ EXCEPT !.stripe_called = TRUE], 400, "Stripe error")]
    /\ UNCHANGED <<users, subscriptions, now, delivered, last_applied>>

----------------------------------------------------------------------------
(* app/routers/subscriptions.py cancel_subscription *)

cancel_without_plan_check(p, current_user) ==
    /\ Free(p)
    /\ current_user \in DOMAIN users
    /\ \E i \in First(ByUserId(subscriptions, current_user)) :
        LET r == [Start("cancel_subscription")
                      EXCEPT !.current_user = current_user] IN
        req' = [req EXCEPT ![p] =
            IF i = 0 THEN Finish(r, 404, "No subscription found")
            ELSE [r EXCEPT !.row = i, !.subscription = subscriptions[i],
                           !.assigned = subscriptions[i],
                           !.pc = IF subscriptions[i].stripe_subscription_id # None
                                  THEN "cancel_stripe" ELSE "cancel_commit"]]
    /\ UNCHANGED <<users, subscriptions, now, delivered, last_applied>>

(* Lines 153-170: the query, the 404 and the free-plan check.               *)
cancel_subscription(p, current_user) ==
    /\ Free(p)
    /\ current_user \in DOMAIN users
    /\ \E i \in First(ByUserId(subscriptions, current_user)) :
        LET r == [Start("cancel_subscription")
                      EXCEPT !.current_user = current_user] IN
        req' = [req EXCEPT ![p] =
            IF i = 0 THEN Finish(r, 404, "No subscription found")
            ELSE IF subscriptions[i].plan = "free"
            THEN Finish(r, 400, "Cannot cancel free plan")
            ELSE [r EXCEPT !.row = i, !.subscription = subscriptions[i],
                           !.assigned = subscriptions[i],
                           !.pc = IF subscriptions[i].stripe_subscription_id # None
                                  THEN "cancel_stripe" ELSE "cancel_commit"]]
    /\ UNCHANGED <<users, subscriptions, now, delivered, last_applied>>

cancel_stripe_after_commit(p, outcome) ==
    /\ req[p].pc = "cancel_stripe"
    /\ IF outcome = "ok"
       THEN /\ req' = [req EXCEPT ![p].stripe_called = TRUE,
                                  ![p].pc = "cancel_commit"]
            /\ UNCHANGED <<subscriptions, last_applied>>
       ELSE /\ subscriptions' = [subscriptions EXCEPT ![req[p].row] =
                    Flush(@, req[p].subscription,
                          [req[p].assigned EXCEPT !.status = "cancelled"])]
            /\ req' = [req EXCEPT ![p] =
                    Finish([@ EXCEPT !.stripe_called = TRUE], 400,
                           "Stripe error")]
            /\ last_applied' = {}
    /\ UNCHANGED <<users, now, delivered>>

(* Lines 170-175 and 183-187: cancel_at_period_end=True at the processor.   *)
cancel_stripe(p, outcome) ==
    /\ req[p].pc = "cancel_stripe"
    /\ req' = [req EXCEPT ![p] =
            IF outcome = "ok"
            THEN [@ EXCEPT !.stripe_called = TRUE, !.pc = "cancel_commit"]
            ELSE Finish([@ EXCEPT !.stripe_called = TRUE], 400, "Stripe error")]
    /\ UNCHANGED <<users, subscriptions, now, delivered, last_applied>>

cancel_commit_dropping_subscription(p) ==
    /\ req[p].pc = "cancel_commit"
    /\ subscriptions' = [subscriptions EXCEPT ![req[p].row] =
            Flush(@, req[p].subscription,
                  [req[p].assigned EXCEPT !.status = "cancelled",
                                          !.stripe_subscription_id = None])]
    /\ req' = [req EXCEPT ![p] =
            Finish(@, 200, "Subscription cancelled successfully")]
    /\ last_applied' = {}
    /\ UNCHANGED <<users, now, delivered>>

(* Lines 177-181: status = CANCELLED; db.commit().                          *)
cancel_commit(p) ==
    /\ req[p].pc = "cancel_commit"
    /\ subscriptions' = [subscriptions EXCEPT ![req[p].row] =
            Flush(@, req[p].subscription,
                  [req[p].assigned EXCEPT !.status = "cancelled"])]
    /\ req' = [req EXCEPT ![p] =
            Finish(@, 200, "Subscription cancelled successfully")]
    /\ last_applied' = {}
    /\ UNCHANGED <<users, now, delivered>>

----------------------------------------------------------------------------
(* app/routers/subscriptions.py reactivate_subscription *)

reactivate_without_status_check(p, current_user) ==
    /\ Free(p)
    /\ current_user \in DOMAIN users
    /\ \E i \in First(ByUserId(subscriptions, current_user)) :
        LET r == [Start("reactivate_subscription")
                      EXCEPT !.current_user = current_user] IN
        req' = [req EXCEPT ![p] =
            IF i = 0 THEN Finish(r, 404, "No subscription found")
            ELSE [r EXCEPT !.row = i, !.subscription = subscriptions[i],
                           !.assigned = subscriptions[i],
                           !.pc = IF subscriptions[i].stripe_subscription_id # None
                                  THEN "reactivate_stripe"
                                  ELSE "reactivate_commit"]]
    /\ UNCHANGED <<users, subscriptions, now, delivered, last_applied>>

(* Lines 195-212: the query, the 404 and the status check.                  *)
reactivate_subscription(p, current_user) ==
    /\ Free(p)
    /\ current_user \in DOMAIN users
    /\ \E i \in First(ByUserId(subscriptions, current_user)) :
        LET r == [Start("reactivate_subscription")
                      EXCEPT !.current_user = current_user] IN
        req' = [req EXCEPT ![p] =
            IF i = 0 THEN Finish(r, 404, "No subscription found")
            ELSE IF subscriptions[i].status # "cancelled"
            THEN Finish(r, 400, "Subscription is not cancelled")
            ELSE [r EXCEPT !.row = i, !.subscription = subscriptions[i],
                           !.assigned = subscriptions[i],
                           !.pc = IF subscriptions[i].stripe_subscription_id # None
                                  THEN "reactivate_stripe"
                                  ELSE "reactivate_commit"]]
    /\ UNCHANGED <<users, subscriptions, now, delivered, last_applied>>

(* Lines 212-217 and 225-229: cancel_at_period_end=False at the processor.  *)
reactivate_stripe(p, outcome) ==
    /\ req[p].pc = "reactivate_stripe"
    /\ req' = [req EXCEPT ![p] =
            IF outcome = "ok"
            THEN [@ EXCEPT !.stripe_called = TRUE, !.pc = "reactivate_commit"]
            ELSE Finish([@ EXCEPT !.stripe_called = TRUE], 400, "Stripe error")]
    /\ UNCHANGED <<users, subscriptions, now, delivered, last_applied>>

(* Lines 219-223: status = ACTIVE; db.commit().                             *)
reactivate_commit(p) ==
    /\ req[p].pc = "reactivate_commit"
    /\ subscriptions' = [subscriptions EXCEPT ![req[p].row] =
            Flush(@, req[p].subscription,
                  [req[p].assigned EXCEPT !.status = "active"])]
    /\ req' = [req EXCEPT ![p] =
            Finish(@, 200, "Subscription reactivated successfully")]
    /\ last_applied' = {}
    /\ UNCHANGED <<users, now, delivered>>

----------------------------------------------------------------------------
(* app/routers/subscriptions.py stripe_webhook and its three handlers *)

(* stripe.Webhook.construct_event: the event, ValueError for a payload that *)
(* does not parse, SignatureVerificationError for a bad signature.          *)
ConstructEvent == {"ok", "ValueError", "SignatureVerificationError"}

(* Lines 305-310: the row of metadata.user_id.                              *)
CheckoutRows(ev) == First(ByUserId(subscriptions, ev.user_id))

InvoiceRowsUnfiltered(ev) == First(DOMAIN subscriptions)

(* Lines 322-326 and 336-340: the row with the invoice's subscription id.   *)
InvoiceRows(ev) == First(ByStripeSubscriptionId(subscriptions, ev.subscription))

handle_successful_payment_keep_plan(row, ev, utcnow) ==
    [row EXCEPT !.status = "active",
                !.stripe_subscription_id = ev.subscription,
                !.current_period_start = At(utcnow),
                !.current_period_end = At(utcnow + PeriodDays)]

(* Lines 313-317: what handle_successful_payment assigns.                   *)
handle_successful_payment(row, ev, utcnow) ==
    [row EXCEPT !.plan = ev.plan,
                !.status = "active",
                !.stripe_subscription_id = ev.subscription,
                !.current_period_start = At(utcnow),
                !.current_period_end = At(utcnow + PeriodDays)]

handle_renewal_without_period(row, ev) == [row EXCEPT !.status = "active"]

(* Lines 329-331: what handle_successful_payment_renewal assigns.           *)
handle_successful_payment_renewal(row, ev) ==
    [row EXCEPT !.status = "active",
                !.current_period_start = At(ev.period_start),
                !.current_period_end = At(ev.period_end)]

handle_failed_payment_inactive(row, ev) == [row EXCEPT !.status = "inactive"]

(* Line 343: what handle_failed_payment assigns.                            *)
handle_failed_payment(row, ev) == [row EXCEPT !.status = "past_due"]

HandledTypes == {"checkout.session.completed", "invoice.payment_succeeded",
                 "invoice.payment_failed"}

Assigned(row, ev, utcnow) ==
    CASE ev.type = "checkout.session.completed" ->
            handle_successful_payment(row, ev, utcnow)
      [] ev.type = "invoice.payment_succeeded" ->
            handle_successful_payment_renewal(row, ev)
      [] ev.type = "invoice.payment_failed" ->
            handle_failed_payment(row, ev)

(* The keys of the event object a handler subscripts before its query     *)
(* (lines 305-306, 322, 336).                                               *)
KeysBeforeQuery(ev) ==
    IF ev.type = "checkout.session.completed" THEN {"user_id", "plan"}
    ELSE IF ev.type \in HandledTypes THEN {"subscription"}
    ELSE {}

(* A handler that found its row raises while it assigns: SubscriptionPlan(  *)
(* plan) is a ValueError for a value that is no plan (line 313), a key the  *)
(* object does not have is a KeyError (lines 315, 330, 331).                *)
Raises(row, ev) ==
    CASE ev.type = "checkout.session.completed" ->
            ev.plan \notin SubscriptionPlan \/ "subscription" \in ev.missing
      [] ev.type = "invoice.payment_succeeded" ->
            {"period_start", "period_end"} \cap ev.missing # {}
      [] ev.type = "invoice.payment_failed" -> FALSE

(* The attributes assigned on the session's copy of the row before the      *)
(* exception.                                                               *)
AssignedBeforeRaise(row, ev) ==
    CASE ev.type = "checkout.session.completed" ->
            IF ev.plan \notin SubscriptionPlan THEN row
            ELSE [row EXCEPT !.plan = ev.plan, !.status = "active"]
      [] ev.type = "invoice.payment_succeeded" ->
            IF "period_start" \in ev.missing
            THEN [row EXCEPT !.status = "active"]
            ELSE [row EXCEPT !.status = "active",
                             !.current_period_start = At(ev.period_start)]
      [] ev.type = "invoice.payment_failed" -> row

CloseCommits(stored, loaded, assigned) == Flush(stored, loaded, assigned)

(* get_db's finally: db.close() without a commit discards the attributes    *)
(* assigned in the session; the stored row stays as it is.                  *)
Close(stored, loaded, assigned) == stored

stripe_webhook_unverified(p, ev, constructed) ==
    /\ Free(p)
    /\ constructed # "ok"
    /\ ev.type \in HandledTypes /\ ev.missing = {} /\ ev.plan \in SubscriptionPlan
    /\ \E i \in (IF ev.type = "checkout.session.completed"
                  THEN CheckoutRows(ev) ELSE InvoiceRows(ev)) :
         /\ i # 0
         /\ subscriptions' = [subscriptions EXCEPT ![i] =
                                    Assigned(@, ev, now)]
    /\ req' = [req EXCEPT ![p] =
            Finish([Start("stripe_webhook")
                        EXCEPT !.event = ev, !.constructed = constructed],
                   200, "success")]
    /\ UNCHANGED <<users, now, delivered, last_applied>>

(* Lines 278-288: a request that fails verification is answered 400.        *)
stripe_webhook_rejected(p, ev, constructed) ==
    /\ Free(p)
    /\ constructed # "ok"
    /\ req' = [req EXCEPT ![p] =
            Finish([Start("stripe_webhook")
                        EXCEPT !.event = ev, !.constructed = constructed],
                   400,
                   IF constructed = "ValueError"
                   THEN "Invalid payload" ELSE "Invalid signature")]
    /\ UNCHANGED <<users, subscriptions, now, delivered, last_applied>>

stripe_webhook_rejecting_unknown(p, ev) ==
    /\ Free(p)
    /\ ev.type \notin HandledTypes
    /\ req' = [req EXCEPT ![p] =
            Finish([Start("stripe_webhook") EXCEPT !.event = ev], 400,
                   "Unhandled event type")]
    /\ UNCHANGED <<users, subscriptions, now, delivered, last_applied>>

(* Lines 290-301 with the handler's query: the event is dispatched on its   *)
(* type; a handler that finds no row, and an event of another type, leave   *)
(* the tables alone and the answer is {"status": "success"}.  An exception  *)
(* in the handler is not caught: the answer is a 500 and the session is     *)
(* closed.                                                                  *)
stripe_webhook(p, ev) ==
    /\ Free(p)
    /\ LET r == [Start("stripe_webhook") EXCEPT !.event = ev] IN
       IF KeysBeforeQuery(ev) \cap ev.missing # {}
       THEN /\ req' = [req EXCEPT ![p] =
                    Finish(r, 500, "Internal Server Error")]
            /\ UNCHANGED <<subscriptions, last_applied>>
       ELSE
       \E i \in (IF ev.type = "checkout.session.completed" THEN CheckoutRows(ev)
                 ELSE IF ev.type \in HandledTypes THEN InvoiceRows(ev)
                 ELSE {0}) :
         IF i = 0
         THEN /\ req' = [req EXCEPT ![p] = Finish(r, 200, "success")]
              /\ last_applied' = {}
              /\ UNCHANGED subscriptions
         ELSE IF Raises(subscriptions[i], ev)
         THEN /\ subscriptions' = [subscriptions EXCEPT ![i] =
                    Close(@, @, AssignedBeforeRaise(@, ev))]
              /\ req' = [req EXCEPT ![p] =
                    Finish(r, 500, "Internal Server Error")]
              /\ UNCHANGED last_applied
         ELSE /\ req' = [req EXCEPT ![p] =
                    [r EXCEPT !.row = i, !.subscription = subscriptions[i],
                              !.assigned = Assigned(subscriptions[i], ev, now),
                              !.pc = "webhook_commit"]]
              /\ UNCHANGED <<subscriptions, last_applied>>
    /\ UNCHANGED delivered
    /\ UNCHANGED <<users, now>>

(* Lines 318, 332, 344 and 301: db.commit(), then {"status": "success"}.    *)
webhook_commit(p) ==
    /\ req[p].pc = "webhook_commit"
    /\ subscriptions' = [subscriptions EXCEPT ![req[p].row] =
            Flush(@, req[p].subscription, req[p].assigned)]
    /\ req' = [req EXCEPT ![p] = Finish(@, 200, "success")]
    /\ delivered' = delivered \cup {req[p].event}
    /\ last_applied' = {req[p].event}
    /\ UNCHANGED <<users, now>>

----------------------------------------------------------------------------
(* The billing events the payment processor sends in the model *)

Checkout(user_id, plan, sid) ==
    [type |-> "checkout.session.completed", user_id |-> user_id,
     plan |-> plan, subscription |-> sid, period_start |-> 0, period_end |-> 0,
     missing |-> {}]

Invoice(type, sid, period_start, period_end) ==
    [type |-> type, user_id |-> 0, plan |-> "free", subscription |-> sid,
     period_start |-> period_start, period_end |-> period_end,
     missing |-> {}]

(* The event without one of its keys.                                      *)
Without(ev, key) == [ev EXCEPT !.missing = {key}]

(* Events that make their handler raise: a plan that is no plan, and        *)
(* payloads without a key the handler subscripts.                           *)
BrokenEvents ==
    {Checkout(1, "gold", "sub_A"),
     Without(Checkout(1, "premium", "sub_A"), "subscription"),
     Without(Invoice("invoice.payment_succeeded", "sub_A", 40, 70),
             "period_end"),
     Without(Invoice("invoice.payment_failed", "sub_A", 40, 70),
             "subscription")}

Events ==
    {Checkout(1, "basic", "sub_A"), Checkout(2, "premium", "sub_B"),
     Invoice("invoice.payment_succeeded", "sub_A", 40, 70),
     Invoice("invoice.payment_failed", "sub_A", 40, 70),
     Invoice("invoice.payment_failed", None, 40, 70),
     Invoice("customer.updated", "sub_A", 0, 0)}
    \cup BrokenEvents

----------------------------------------------------------------------------
Tick ==
    /\ now < MaxTime
    /\ now' = now + 1
    /\ UNCHANGED <<users, subscriptions, req, delivered, last_applied,
                   api_keys, usage, before_cancel>>

(* The handlers of auth.py and subscriptions.py use neither api_keys nor    *)
(* usage.                                                                   *)
AccountStep(p) ==
    /\ UNCHANGED <<api_keys, usage, before_cancel>>
    /\ \/ \E d \in UserCreate : register_check(p, d)
       \/ register_insert_user(p)
       \/ register_insert_subscription(p)
       \/ \E u \in DOMAIN users : get_current_subscription(p, u)
       \/ current_insert(p)

BillingActions(p, callers, events) ==
    /\ UNCHANGED <<api_keys, usage>>
    /\ \/ \E u \in callers : cancel_subscription(p, u)
       \/ \E o \in StripeOutcomes : cancel_stripe(p, o)
       \/ cancel_commit(p)
       \/ \E u \in callers : reactivate_subscription(p, u)
       \/ \E o \in StripeOutcomes : reactivate_stripe(p, o)
       \/ reactivate_commit(p)
       \/ \E ev \in events : stripe_webhook(p, ev)
       \/ webhook_commit(p)

BillingStep(p, callers, events) ==
    /\ BillingActions(p, callers, events)
    /\ UNCHANGED before_cancel

(* Billing with one worker process (main.py uvicorn.run): a handler has no  *)
(* suspension point between its statements, so requests are handled one     *)
(* after the other.                                                         *)
Next ==
    \/ Tick
    \/ BillingStep(1, 1..MaxUsers, Events)
    \/ /\ \E ev \in Events, c \in ConstructEvent :
                stripe_webhook_rejected(1, ev, c)
       /\ UNCHANGED <<api_keys, usage, before_cancel>>

Spec == InitRegistered /\ [][Next]_vars

(* Billing with several workers on one database: the calls of user 1 and    *)
(* the billing events of user 1's subscription.                             *)
RaceEvents ==
    {Checkout(1, "basic", "sub_A"),
     Invoice("invoice.payment_failed", "sub_A", 40, 70)}

NextConc == \E p \in 1..BillingWorkers : BillingStep(p, {1}, RaceEvents)

SpecConc == InitRegistered /\ [][NextConc]_vars

(* Billing events of the subscriptions of two users, several workers: the   *)
(* checkouts that give user 1 and user 2 their external subscription and    *)
(* the invoices of the two external subscriptions.                          *)
InvoiceEvents ==
    {Checkout(1, "basic", "sub_A"), Checkout(2, "premium", "sub_B"),
     Invoice("invoice.payment_failed", "sub_A", 40, 70),
     Invoice("invoice.payment_succeeded", "sub_B", 50, 80)}

WebhookStep(p, events) ==
    /\ UNCHANGED <<api_keys, usage, before_cancel>>
    /\ \/ \E ev \in events : stripe_webhook(p, ev)
       \/ webhook_commit(p)

NextInvoices == \E p \in 1..BillingWorkers : WebhookStep(p, InvoiceEvents)

SpecInvoices == InitRegistered /\ [][NextInvoices]_vars

(* Cancel and reactivate with the billing events that make a plan paid and  *)
(* move its status, one worker.  before_cancel keeps the row as it was      *)
(* stored when a cancel committed, while time passes and while the owner's  *)
(* next request, if it is a reactivate, runs; any other request forgets it. *)
ReversalEvents ==
    {Checkout(1, "basic", "sub_A"), Checkout(2, "premium", "sub_B"),
     Invoice("invoice.payment_failed", "sub_A", 40, 70),
     Invoice("invoice.payment_succeeded", "sub_A", 40, 70)}

Remember(p) ==
    IF req[p].pc = "cancel_commit" /\ req'[p].pc = "done"
    THEN {subscriptions[req[p].row]}
    ELSE {b \in before_cancel :
            /\ req'[p].handler = "reactivate_subscription"
            /\ req'[p].current_user = b.user_id
            /\ Free(p) => req[p].handler = "cancel_subscription"}

ReversalStep(p, callers, events) ==
    /\ BillingActions(p, callers, events)
    /\ before_cancel' = Remember(p)

NextReversal ==
    \/ Tick
    \/ ReversalStep(1, 1..MaxUsers, ReversalEvents)

SpecReversal == InitRegistered /\ [][NextReversal]_vars

(* Checkout sessions of user 1 next to the billing events of user 1's       *)
(* subscription, several workers.                                           *)
CheckoutPlans == {"free", "basic"}

CheckoutStep(p, callers) ==
    /\ UNCHANGED <<api_keys, usage, before_cancel>>
    /\ \/ \E u \in callers, plan \in CheckoutPlans :
                create_checkout_session(p, u, plan)
       \/ \E o \in StripeOutcomes : checkout_customer(p, o)
       \/ checkout_commit(p)
       \/ \E o \in StripeOutcomes : checkout_session(p, o)

NextCheckout ==
    \E p \in 1..BillingWorkers :
        \/ CheckoutStep(p, {1})
        \/ WebhookStep(p, RaceEvents)

SpecCheckout == InitRegistered /\ [][NextCheckout]_vars

(* Registration and lazy creation, several workers, from the empty          *)
(* database.                                                                *)
NextAccounts == \E p \in Workers : AccountStep(p)

SpecAccounts == Init /\ [][NextAccounts]_vars

----------------------------------------------------------------------------
(* app/routers/dashboard.py: the API key registry *)

MaxKeys == 4
MaxRecords == 2

(* api_key = f"sk_{secrets.token_urlsafe(32)}": the token is written as the *)
(* number of the draw from the random source.                               *)
ApiKey(token) == <<"sk_", token>>

(* hashlib.sha256(api_key.encode()).hexdigest()                              *)
Sha256(api_key) == <<"sha256", api_key>>

(* s[:8] + "..."                                                             *)
Preview(s) == <<"[:8]", s>>

(* APIKey(name=..., key_hash=..., user_id=..., project_id=...); is_active   *)
(* has default=True.  The columns no handler of the registry reads are      *)
(* left out.                                                                *)
APIKey(user_id, key_hash) ==
    [user_id |-> user_id, key_hash |-> key_hash, is_active |-> TRUE]

(* The attributes of an APIKey row object (the columns of the table).       *)
APIKeyAttributes ==
    {"id", "name", "key_hash", "user_id", "project_id", "is_active",
     "last_used", "usage_count", "rate_limit", "created_at", "expires_at"}

(* schemas.APIKeyResponse and APIKeyCreateResponse: the fields declared     *)
(* without a default.                                                       *)
APIKeyResponse ==
    {"name", "id", "key_preview", "is_active", "usage_count", "rate_limit",
     "created_at"}
APIKeyCreateResponse == APIKeyResponse \cup {"api_key"}

(* Schema.from_orm(row) (Config from_attributes): each field is read from   *)
(* the attribute of its name; a field without default whose attribute the   *)
(* row object does not have fails the validation.                           *)
from_orm(schema, attributes) ==
    IF schema \subseteq attributes THEN "ok" ELSE "ValidationError"

(* Lines 181-186.                                                           *)
max_keys(plan) ==
    CASE plan = "free" -> 1
      [] plan = "basic" -> 3
      [] plan = "premium" -> 10
      [] plan = "enterprise" -> 50

(* filter(APIKey.user_id == id, APIKey.is_active == True)                   *)
ActiveKeys(rows, user_id) ==
    {i \in DOMAIN rows : rows[i].user_id = user_id /\ rows[i].is_active}

(* filter(APIKey.user_id == id)                                             *)
KeysOf(rows, user_id) == {i \in DOMAIN rows : rows[i].user_id = user_id}

(* filter(APIKey.id == key_id, APIKey.user_id == id).first()                *)
KeyById(rows, key_id, user_id) ==
    {i \in DOMAIN rows : i = key_id /\ rows[i].user_id = user_id}

(* Lines 171-173 and 188: the caller's subscription; without a row the      *)
(* plan is "free".                                                          *)
create_api_key(p, current_user) ==
    /\ Free(p)
    /\ current_user \in DOMAIN users
    /\ Len(api_keys) < MaxKeys
    /\ \E i \in First(ByUserId(subscriptions, current_user)) :
        req' = [req EXCEPT ![p] =
            [Start("create_api_key")
                EXCEPT !.current_user = current_user,
                       !.plan = IF i = 0 THEN "free" ELSE subscriptions[i].plan,
                       !.pc = "create_count"]]
    /\ UNCHANGED <<users, subscriptions, now, delivered, last_applied,
                   api_keys, usage, before_cancel>>

(* Lines 175-193: the count of active keys and the limit of the plan.       *)
create_count(p) ==
    /\ req[p].pc = "create_count"
    /\ LET current_key_count ==
                Cardinality(ActiveKeys(api_keys, req[p].current_user)) IN
       req' = [req EXCEPT ![p] =
            IF current_key_count >= max_keys(req[p].plan)
            THEN Finish([@ EXCEPT !.current_key_count = current_key_count],
                        400, "Maximum API keys reached")
            ELSE [@ EXCEPT !.current_key_count = current_key_count,
                           !.pc = "create_insert"]]
    /\ UNCHANGED <<users, subscriptions, now, delivered, last_applied,
                   api_keys, usage, before_cancel>>

(* Lines 195-216: the key is generated, its row is inserted and committed,  *)
(* and the response is built from the row: from_orm first, then api_key     *)
(* and key_preview are assigned.  An exception of from_orm is not caught:   *)
(* the answer is a 500, after the commit.                                   *)
create_insert(p) ==
    /\ req[p].pc = "create_insert"
    /\ LET api_key == ApiKey(Len(api_keys) + 1)
           key_hash == Sha256(api_key)
       IN /\ api_keys' = Append(api_keys,
                                APIKey(req[p].current_user, key_hash))
          /\ req' = [req EXCEPT ![p] =
                IF from_orm(APIKeyCreateResponse, APIKeyAttributes) = "ok"
                THEN Finish([@ EXCEPT !.key_id = Len(api_keys) + 1,
                                      !.exposed = {api_key, Preview(api_key)}],
                            200, "")
                ELSE Finish([@ EXCEPT !.key_id = Len(api_keys) + 1],
                            500, "Internal Server Error")]
    /\ UNCHANGED <<users, subscriptions, now, delivered, last_applied, usage,
                   before_cancel>>

(* Lines 143-161: the caller's keys, each with the preview of its hash.     *)
get_user_api_keys(p, current_user) ==
    /\ Free(p)
    /\ current_user \in DOMAIN users
    /\ LET r == [Start("get_user_api_keys")
                    EXCEPT !.current_user = current_user]
           keys == KeysOf(api_keys, current_user)
       IN req' = [req EXCEPT ![p] =
            IF keys = {} \/ from_orm(APIKeyResponse, APIKeyAttributes) = "ok"
            THEN Finish([r EXCEPT !.exposed =
                            {Preview(api_keys[i].key_hash) : i \in keys}],
                        200, "")
            ELSE Finish(r, 500, "Internal Server Error")]
    /\ UNCHANGED <<users, subscriptions, now, delivered, last_applied,
                   api_keys, usage, before_cancel>>

delete_api_key_any_owner(p, current_user, key_id) ==
    /\ Free(p)
    /\ current_user \in DOMAIN users
    /\ LET r == [Start("delete_api_key")
                    EXCEPT !.current_user = current_user, !.key_id = key_id]
       IN req' = [req EXCEPT ![p] =
            IF key_id \notin DOMAIN api_keys
            THEN Finish(r, 404, "API key not found")
            ELSE [r EXCEPT !.pc = "delete_commit"]]
    /\ UNCHANGED <<users, subscriptions, now, delivered, last_applied,
                   api_keys, usage, before_cancel>>

(* Lines 225-234: the key with this id of this user, or the 404.            *)
delete_api_key(p, current_user, key_id) ==
    /\ Free(p)
    /\ current_user \in DOMAIN users
    /\ LET r == [Start("delete_api_key")
                    EXCEPT !.current_user = current_user, !.key_id = key_id]
       IN \E i \in First(KeyById(api_keys, key_id, current_user)) :
            req' = [req EXCEPT ![p] =
                IF i = 0 THEN Finish(r, 404, "API key not found")
                ELSE [r EXCEPT !.pc = "delete_commit"]]
    /\ UNCHANGED <<users, subscriptions, now, delivered, last_applied,
                   api_keys, usage, before_cancel>>

(* Lines 236-239: is_active = False; db.commit().  The UPDATE is sent when  *)
(* the loaded value was True; nothing sets the column back to True, so the  *)
(* stored value is False after the commit in both cases.                    *)
delete_commit(p) ==
    /\ req[p].pc = "delete_commit"
    /\ api_keys' = [api_keys EXCEPT ![req[p].key_id].is_active = FALSE]
    /\ req' = [req EXCEPT ![p] =
            Finish(@, 200, "API key deleted successfully")]
    /\ UNCHANGED <<users, subscriptions, now, delivered, last_applied, usage,
                   before_cancel>>

----------------------------------------------------------------------------
(* Usage records *)

(* Usage(user_id, api_key_id, timestamp): the other columns are not read    *)
(* by the counts.                                                           *)
Usage(user_id, api_key_id, timestamp) ==
    [user_id |-> user_id, api_key_id |-> api_key_id, timestamp |-> timestamp]

(* One usage record is appended for an API call of the user (api_key_id 0   *)
(* for a call without a key).  No handler of the routers inserts into       *)
(* usage; the step is the record operation of the metering engine.          *)
record(user_id, api_key_id, timestamp, limit) ==
    /\ Len(usage) < limit
    /\ user_id \in DOMAIN users
    /\ api_key_id = 0 \/ api_key_id \in KeysOf(api_keys, user_id)
    /\ usage' = Append(usage, Usage(user_id, api_key_id, timestamp))
    /\ UNCHANGED <<users, subscriptions, now, req, delivered, last_applied,
                   api_keys, before_cancel>>

----------------------------------------------------------------------------
(* The registry with one worker process *)

(* The plans of user 1 the registry is run with; user 2 has no              *)
(* subscription row.                                                        *)
KeyPlans == {"free", "basic"}

InitKeys ==
    /\ users = [i \in 1..MaxUsers |-> [email |-> i, username |-> i]]
    /\ \E plan \in KeyPlans :
            subscriptions = <<Subscription(1, plan, "active")>>
    /\ now = 0
    /\ req = [p \in Workers |-> Idle]
    /\ delivered = {}
    /\ last_applied = {}
    /\ api_keys = <<>>
    /\ usage = <<>>
    /\ before_cancel = {}

KeyStep(p, callers) ==
    \/ \E u \in callers : create_api_key(p, u)
    \/ create_count(p)
    \/ create_insert(p)
    \/ \E u \in callers : get_user_api_keys(p, u)
    \/ \E u \in callers, k \in 1..(MaxKeys + 1) : delete_api_key(p, u, k)
    \/ delete_commit(p)

NextKeys ==
    \/ KeyStep(1, {1, 2})
    \/ \E u \in {1, 2}, k \in DOMAIN api_keys : record(u, k, now, 1)

SpecKeys == InitKeys /\ [][NextKeys]_vars

(* The registry with several workers on one database: user 1's calls and    *)
(* the checkouts that change user 1's plan.                                 *)
KeyEvents == {Checkout(1, "basic", "sub_A"), Checkout(1, "premium", "sub_A")}

NextKeysConc ==
    \E p \in 1..BillingWorkers :
        \/ KeyStep(p, {1})
        \/ WebhookStep(p, KeyEvents)

SpecKeysConc == InitKeys /\ [][NextKeysConc]_vars


----------------------------------------------------------------------------
(* app/routers/subscriptions.py get_subscription_usage *)

(* Timestamps are days since the first day of year 0; the calendar of the   *)
(* model has months of DaysPerMonth days.  The server's clock and the       *)
(* database's extract() use the same time zone.                             *)
DaysPerMonth == 2
MonthsPerYear == 12

(* extract('month', timestamp), datetime.now().month                        *)
Month(t) == ((t \div DaysPerMonth) % MonthsPerYear) + 1

(* extract('year', timestamp), datetime.now().year                          *)
Year(t) == t \div (DaysPerMonth * MonthsPerYear)

(* SUBSCRIPTION_PLANS[plan]['limits']['api_calls_per_month']                *)
api_calls_per_month_flat(plan) == 150
api_calls_per_month(plan) ==
    CASE plan = "free" -> 150
      [] plan = "basic" -> 1000
      [] plan = "premium" -> 10000
      [] plan = "enterprise" -> -1

(* Lines 254-258 (and dashboard.py 45-49): the count of the user's records  *)
(* whose month and year are the current ones.                               *)
UsageAnyYear(rows, user_id, current_month, current_year) ==
    Cardinality({i \in DOMAIN rows :
        /\ rows[i].user_id = user_id
        /\ Month(rows[i].timestamp) = current_month})
UsageThisMonth(rows, user_id, current_month, current_year) ==
    Cardinality({i \in DOMAIN rows :
        /\ rows[i].user_id = user_id
        /\ Month(rows[i].timestamp) = current_month
        /\ Year(rows[i].timestamp) = current_year})

(* Lines 240-248: the caller's subscription, or the 404.                    *)
get_subscription_usage(p, current_user) ==
    /\ Free(p)
    /\ current_user \in DOMAIN users
    /\ \E i \in First(ByUserId(subscriptions, current_user)) :
        LET r == [Start("get_subscription_usage")
                      EXCEPT !.current_user = current_user] IN
        req' = [req EXCEPT ![p] =
            IF i = 0 THEN Finish(r, 404, "No subscription found")
            ELSE [r EXCEPT !.plan = subscriptions[i].plan,
                           !.pc = "usage_count"]]
    /\ UNCHANGED <<users, subscriptions, now, delivered, last_applied,
                   api_keys, usage, before_cancel>>

(* Lines 250-270: the count of the current month and the returned dict.     *)
usage_count(p) ==
    /\ req[p].pc = "usage_count"
    /\ LET current_month == Month(now)
           current_year == Year(now)
           count == UsageThisMonth(usage, req[p].current_user,
                                   current_month, current_year)
           limit == api_calls_per_month(req[p].plan)
       IN req' = [req EXCEPT ![p] =
            Finish([@ EXCEPT !.report = [current_usage |-> count,
                                         limit |-> limit]], 200, "")]
    /\ UNCHANGED <<users, subscriptions, now, delivered, last_applied,
                   api_keys, usage, before_cancel>>

(* The first day of the month the reports are made in (the second month of  *)
(* year 1), and the timestamps around it: the same month a year before,     *)
(* the day before the month, its first and last day, and the day after it.  *)
ThisMonth == (MonthsPerYear + 1) * DaysPerMonth
UsageTimes ==
    {ThisMonth - MonthsPerYear * DaysPerMonth, ThisMonth - 1, ThisMonth,
     ThisMonth + DaysPerMonth - 1, ThisMonth + DaysPerMonth}
UsageClock == {ThisMonth, ThisMonth + DaysPerMonth - 1, ThisMonth + DaysPerMonth}

(* The plans of user 1 the report is run with; user 2 has no subscription   *)
(* row.                                                                     *)
UsagePlans == {"basic", "premium"}

(* The records of a user who is MaxRecords calls short of the basic limit   *)
(* (user 1 on the basic plan, all of the month the report is made in).      *)
EarlierUsage ==
    [i \in 1..(api_calls_per_month("basic") - MaxRecords) |->
        Usage(1, 0, ThisMonth)]

InitUsage ==
    /\ users = [i \in 1..MaxUsers |-> [email |-> i, username |-> i]]
    /\ now \in UsageClock
    /\ \E plan \in UsagePlans :
            /\ subscriptions = <<Subscription(1, plan, "active")>>
            /\ usage \in (IF plan = "basic" /\ now = ThisMonth
                          THEN {<<>>, EarlierUsage} ELSE {<<>>})
    /\ req = [p \in Workers |-> Idle]
    /\ delivered = {}
    /\ last_applied = {}
    /\ api_keys = <<>>
    /\ before_cancel = {}

UsageStep(p, callers) ==
    \/ \E u \in callers : get_subscription_usage(p, u)
    \/ usage_count(p)

NextUsage ==
    \/ UsageStep(1, {1, 2})
    \/ \E u \in {1, 2}, t \in UsageTimes :
            record(u, 0, t,
                   (IF Len(usage) >= Len(EarlierUsage)
                    THEN Len(EarlierUsage) ELSE 0) + MaxRecords)

SpecUsage == InitUsage /\ [][NextUsage]_vars

----------------------------------------------------------------------------
(* Properties *)

Completes(p, pc) == req[p].pc = pc /\ req'[p].pc = "done"

(* C1: when a register call completes successfully (201), exactly one       *)
(* Subscription row exists for the new user, and it has plan free and       *)
(* status active.                                                           *)
C1_RegisterCreatesFreeActive ==
    [][\A p \in Workers :
        (Completes(p, "register_insert_subscription")
            /\ req'[p].response.status_code = 201)
        => LET mine == ByUserId(subscriptions', req[p].current_user) IN
           /\ Cardinality(mine) = 1
           /\ \A i \in mine : /\ subscriptions'[i].plan = "free"
                               /\ subscriptions'[i].status = "active"]_vars

C1_Witness ==
    \E p \in Workers :
        /\ req[p].handler = "register"
        /\ req[p].response.status_code = 201
        /\ \E i \in DOMAIN subscriptions :
                subscriptions[i] = Subscription(req[p].current_user, "free", "active")

(* C2: in every reachable state at most one Subscription row exists per     *)
(* user_id, whatever the interleaving of concurrent                         *)
(* get_current_subscription calls (and registrations).                      *)
C2_AtMostOneRowPerUser ==
    \A u \in DOMAIN users : Cardinality(ByUserId(subscriptions, u)) <= 1

(* Two get_current_subscription calls of one user both found no row and    *)
(* are both about to insert it.                                             *)
C2_Witness ==
    \E p, q \in Workers :
        /\ p # q
        /\ req[p].pc = "current_insert"
        /\ req[q].pc = "current_insert"
        /\ req[p].current_user = req[q].current_user

(* Worker p takes a new request for handler h. *)
Begins(p, h) == Free(p) /\ req'[p] # req[p] /\ req'[p].handler = h

(* The row of user u (the one the handler's query returns). *)
RowOf(u) == CHOOSE i \in ByUserId(subscriptions, u) : TRUE

(* What the user's call does to a row when it runs alone, and what it       *)
(* requires of the row.                                                     *)
Precondition(handler, row) ==
    IF handler = "cancel_subscription" THEN row.plan # "free"
    ELSE row.status = "cancelled"

Effect(handler, row) ==
    IF handler = "cancel_subscription" THEN [row EXCEPT !.status = "cancelled"]
    ELSE [row EXCEPT !.status = "active"]

(* C3: a user's cancel or reactivate that races with a billing webhook      *)
(* event for the same subscription ends as if the two had run one after     *)
(* the other: when the call writes, either nothing was written since it     *)
(* read the row, or its precondition holds of the row as stored now and it  *)
(* leaves the row as the call would (event, then call), or it leaves the    *)
(* row as the event left it (call, then event).                             *)
C3_RaceWithWebhookSerializable ==
    [][\A p \in Workers :
        ((Completes(p, "cancel_commit") \/ Completes(p, "reactivate_commit"))
            /\ \A q \in Workers \ {p} :
                    req[q].handler \in {"none", "stripe_webhook"})
        => LET loaded == req[p].subscription
               stored == subscriptions[req[p].row]
               after == subscriptions'[req[p].row]
           IN \/ stored = loaded
              \/ /\ Precondition(req[p].handler, stored)
                 /\ after = Effect(req[p].handler, stored)
              \/ after = stored]_vars

(* A commit of some worker that handles operation op (for a webhook, the    *)
(* event type) on row i.                                                    *)
CommitOf(op, i) ==
    \E p \in Workers :
        /\ req[p].row = i
        /\ \/ op = "cancel" /\ Completes(p, "cancel_commit")
           \/ op = "reactivate" /\ Completes(p, "reactivate_commit")
           \/ Completes(p, "webhook_commit") /\ req[p].event.type = op

(* C4, as claimed: every change of a subscription's status is an edge of    *)
(* the state diagram: active to cancelled by user cancel, cancelled to      *)
(* active by user reactivate, active to past_due by payment failed,         *)
(* past_due to active by payment succeeded, any status to active by         *)
(* checkout completed.                                                      *)
C4_OnlyDiagramEdges ==
    [][\A i \in DOMAIN subscriptions :
        LET old == subscriptions[i].status
            new == subscriptions'[i].status
        IN old # new =>
            \/ old = "active" /\ new = "cancelled" /\ CommitOf("cancel", i)
            \/ old = "cancelled" /\ new = "active" /\ CommitOf("reactivate", i)
            \/ old = "active" /\ new = "past_due"
                    /\ CommitOf("invoice.payment_failed", i)
            \/ old = "past_due" /\ new = "active"
                    /\ CommitOf("invoice.payment_succeeded", i)
            \/ new = "active" /\ CommitOf("checkout.session.completed", i)]_vars

(* C4, amended: when the operations are applied one after the other, every  *)
(* change of a subscription's status is: to cancelled by user cancel, from  *)
(* cancelled to active by user reactivate, to past_due by payment failed,   *)
(* to active by payment succeeded or by checkout completed, each from any   *)
(* other status unless said.                                                *)
C4_StatusChangesByOperation ==
    [][\A i \in DOMAIN subscriptions :
        LET old == subscriptions[i].status
            new == subscriptions'[i].status
        IN old # new =>
            \/ new = "cancelled" /\ CommitOf("cancel", i)
            \/ old = "cancelled" /\ new = "active" /\ CommitOf("reactivate", i)
            \/ new = "past_due" /\ CommitOf("invoice.payment_failed", i)
            \/ new = "active" /\ CommitOf("invoice.payment_succeeded", i)
            \/ new = "active" /\ CommitOf("checkout.session.completed", i)]_vars

(* A user cancel is about to write cancelled over past_due.                 *)
C4_Witness ==
    \E p \in Workers :
        /\ req[p].pc = "cancel_commit"
        /\ req[p].subscription.status = "past_due"
        /\ subscriptions[req[p].row].status = "past_due"

(* C5: cancel_subscription on a subscription whose plan is free fails with  *)
(* HTTP 400, whatever the status, and changes no subscription.              *)
C5_CancelFreePlanFails ==
    [][\A p \in Workers : \A u \in DOMAIN users :
        (Begins(p, "cancel_subscription") /\ req'[p].current_user = u
            /\ ByUserId(subscriptions, u) # {}
            /\ subscriptions[RowOf(u)].plan = "free")
        => /\ req'[p].pc = "done"
           /\ req'[p].response = Response(400, "Cannot cancel free plan")
           /\ ~req'[p].stripe_called
           /\ subscriptions' = subscriptions]_vars

(* A free plan that is not active (an invoice without a subscription        *)
(* failed) was refused.                                                     *)
C5_Witness ==
    \E p \in Workers :
        /\ req[p].handler = "cancel_subscription"
        /\ req[p].response = Response(400, "Cannot cancel free plan")
        /\ subscriptions[RowOf(req[p].current_user)].plan = "free"
        /\ subscriptions[RowOf(req[p].current_user)].status = "past_due"

(* C6: cancel_subscription on a paid-plan subscription whose status is      *)
(* already cancelled fails with HTTP 400, changes no subscription and       *)
(* sends no request to the payment processor.                               *)
C6_CancelCancelledFails ==
    [][\A p \in Workers : \A u \in DOMAIN users :
        (Begins(p, "cancel_subscription") /\ req'[p].current_user = u
            /\ ByUserId(subscriptions, u) # {}
            /\ subscriptions[RowOf(u)].plan # "free"
            /\ subscriptions[RowOf(u)].status = "cancelled")
        => /\ req'[p].pc = "done"
           /\ req'[p].response.status_code = 400
           /\ ~req'[p].stripe_called
           /\ subscriptions' = subscriptions]_vars

(* C7: reactivate_subscription fails with HTTP 400 and changes nothing when *)
(* the status is active, inactive or past_due; it succeeds only for a       *)
(* cancelled subscription, whose status it sets to active.                  *)
C7_ReactivateOnlyCancelled ==
    [][\A p \in Workers :
        /\ \A u \in DOMAIN users :
            (Begins(p, "reactivate_subscription") /\ req'[p].current_user = u
                /\ ByUserId(subscriptions, u) # {}
                /\ subscriptions[RowOf(u)].status
                        \in {"active", "inactive", "past_due"})
            => /\ req'[p].pc = "done"
               /\ req'[p].response = Response(400, "Subscription is not cancelled")
               /\ subscriptions' = subscriptions
        /\ (req[p].handler = "reactivate_subscription" /\ req[p].pc # "done"
                /\ req'[p].response.status_code = 200)
            => /\ req[p].subscription.status = "cancelled"
               /\ subscriptions[req[p].row].status = "cancelled"
               /\ subscriptions'[req[p].row].status = "active"
        /\ (req[p].handler = "reactivate_subscription" /\ req[p].pc # "done"
                /\ req'[p].response.status_code # 200)
            => subscriptions' = subscriptions]_vars

(* A reactivation of a past_due subscription was refused.                   *)
C7_Witness ==
    \E p \in Workers :
        /\ req[p].handler = "reactivate_subscription"
        /\ req[p].response = Response(400, "Subscription is not cancelled")
        /\ subscriptions[RowOf(req[p].current_user)].status = "past_due"

(* The fields of the ledger the billing events are about. *)
Ledger(rows) ==
    [i \in DOMAIN rows |->
        <<rows[i].plan, rows[i].status, rows[i].stripe_subscription_id,
          rows[i].current_period_start, rows[i].current_period_end>>]

(* C8: handling the same billing event (one that names a subscription) a   *)
(* second time, right after the first, leaves plan, status, external        *)
(* subscription id and period bounds of every subscription as the first     *)
(* handling left them.                                                      *)
C8_SameEventTwice ==
    [][\A p \in Workers :
        (Completes(p, "webhook_commit") /\ last_applied = {req[p].event}
            /\ req[p].event.subscription # None)
        => Ledger(subscriptions') = Ledger(subscriptions)]_vars

(* C9: the redelivery of an event (one that names a subscription) that was  *)
(* applied before, with other operations applied in between, leaves every   *)
(* subscription as it was just before the redelivery.                       *)
C9_RedeliveryIgnored ==
    [][\A p \in Workers :
        (Completes(p, "webhook_commit") /\ req[p].event \in delivered
            /\ last_applied # {req[p].event}
            /\ req[p].event.subscription # None)
        => subscriptions' = subscriptions]_vars

(* C10: for a subscription with external id x in status active, a payment   *)
(* failed event for x sets the status to past_due; a following payment      *)
(* succeeded event for x sets it back to active and sets the period bounds  *)
(* to those of the event.                                                   *)
C10_FailedThenSucceeded ==
    [][\A p \in Workers :
        Completes(p, "webhook_commit") =>
            LET ev == req[p].event
                loaded == req[p].subscription
                after == subscriptions'[req[p].row]
            IN /\ (ev.type = "invoice.payment_failed"
                        /\ loaded.status = "active")
                    => /\ loaded.stripe_subscription_id = ev.subscription
                       /\ after.status = "past_due"
               /\ (ev.type = "invoice.payment_succeeded"
                        /\ loaded.status = "past_due")
                    => /\ loaded.stripe_subscription_id = ev.subscription
                       /\ after.status = "active"
                       /\ after.current_period_start = At(ev.period_start)
                       /\ after.current_period_end = At(ev.period_end)]_vars

(* The payment of sub_A failed and then succeeded.                          *)
C10_Witness ==
    \E p \in Workers : \E i \in DOMAIN subscriptions :
        /\ req[p].handler = "stripe_webhook"
        /\ req[p].event = Invoice("invoice.payment_succeeded", "sub_A", 40, 70)
        /\ last_applied = {req[p].event}
        /\ Invoice("invoice.payment_failed", "sub_A", 40, 70) \in delivered
        /\ subscriptions[i].stripe_subscription_id = "sub_A"
        /\ subscriptions[i].status = "active"
        /\ subscriptions[i].current_period_start = At(40)
        /\ subscriptions[i].current_period_end = At(70)

(* C11: a checkout completed event carrying user u, plan p and external     *)
(* subscription id s, handled at time t when u's subscription is in any     *)
(* status, leaves u's subscription with plan p, status active,              *)
(* stripe_subscription_id s, current_period_start t and current_period_end  *)
(* t + 30 days.                                                             *)
C11_CheckoutSetsLedger ==
    [][\A p \in Workers :
        LET ev == req'[p].event
            wanted(t) == <<ev.plan, "active", ev.subscription,
                           At(t), At(t + PeriodDays)>>
        IN /\ (Begins(p, "stripe_webhook") /\ req'[p].pc = "webhook_commit"
                    /\ ev.type = "checkout.session.completed")
                => /\ subscriptions[req'[p].row].user_id = ev.user_id
                   /\ Ledger(<<req'[p].assigned>>)[1] = wanted(now)
           /\ (Completes(p, "webhook_commit")
                    /\ ev.type = "checkout.session.completed")
                => /\ subscriptions'[req[p].row].user_id = ev.user_id
                   /\ Ledger(subscriptions')[req[p].row]
                            = Ledger(<<req[p].assigned>>)[1]
                   /\ \E t \in 0..now :
                        Ledger(subscriptions')[req[p].row] = wanted(t)]_vars

(* A checkout completed event is about to be written over the cancelled     *)
(* subscription of its user.                                                *)
C11_Witness ==
    \E p \in Workers :
        /\ req[p].pc = "webhook_commit"
        /\ req[p].event = Checkout(1, "basic", "sub_A")
        /\ req[p].subscription.status = "cancelled"
        /\ req[p].subscription.user_id = 1
        /\ subscriptions[req[p].row] = req[p].subscription

(* C12: a webhook request whose signature fails verification or whose       *)
(* payload cannot be parsed is answered 400 and changes no subscription.    *)
C12_RejectedWebhookChangesNothing ==
    [][\A p \in Workers :
        (Begins(p, "stripe_webhook") /\ req'[p].constructed # "ok")
        => /\ req'[p].pc = "done"
           /\ req'[p].response.status_code = 400
           /\ subscriptions' = subscriptions]_vars

(* A request with a bad signature was refused for an event that would have  *)
(* changed the subscription it names.                                       *)
C12_Witness ==
    \E p \in Workers : \E i \in DOMAIN subscriptions :
        /\ req[p].handler = "stripe_webhook"
        /\ req[p].constructed = "SignatureVerificationError"
        /\ req[p].response = Response(400, "Invalid signature")
        /\ req[p].event = Invoice("invoice.payment_failed", "sub_A", 40, 70)
        /\ subscriptions[i].stripe_subscription_id = "sub_A"
        /\ subscriptions[i].status = "active"

(* C13: a verified event whose type is none of checkout completed, invoice  *)
(* payment succeeded and invoice payment failed is answered with success    *)
(* and leaves every subscription unchanged.                                 *)
C13_UnknownEventIgnored ==
    [][\A p \in Workers :
        (Begins(p, "stripe_webhook") /\ req'[p].constructed = "ok"
            /\ req'[p].event.type \notin HandledTypes)
        => /\ req'[p].pc = "done"
           /\ req'[p].response = Response(200, "success")
           /\ subscriptions' = subscriptions]_vars

(* An event of another type for sub_A was answered while sub_A is the       *)
(* subscription of a user.                                                  *)
C13_Witness ==
    \E p \in Workers : \E i \in DOMAIN subscriptions :
        /\ req[p].handler = "stripe_webhook"
        /\ req[p].event = Invoice("customer.updated", "sub_A", 0, 0)
        /\ req[p].response = Response(200, "success")
        /\ subscriptions[i].stripe_subscription_id = "sub_A"

(* C14: when the handling of a verified event fails part-way (a key the     *)
(* handler needs is missing, or the plan is no known plan), no field of     *)
(* any stored subscription is changed; a handling that changes a            *)
(* subscription applies all the assignments of its handler.                 *)
C14_WebhookAllOrNothing ==
    [][\A p \in Workers :
        /\ (req'[p].handler = "stripe_webhook" /\ req'[p] # req[p]
                /\ req'[p].response.status_code = 500)
            => subscriptions' = subscriptions
        /\ (Begins(p, "stripe_webhook") /\ req'[p].pc = "webhook_commit")
            => req'[p].assigned
                    = Assigned(subscriptions[req'[p].row], req'[p].event, now)
        /\ (req[p].handler = "stripe_webhook" /\ req[p].pc # "done"
                /\ subscriptions' # subscriptions)
            => /\ Completes(p, "webhook_commit")
               /\ subscriptions' = [subscriptions EXCEPT ![req[p].row] =
                                        req[p].assigned]]_vars

(* The checkout handler raised on the missing subscription key after it     *)
(* had assigned plan and status to the row of user 1, which is stored on    *)
(* another plan.                                                            *)
C14_Witness ==
    \E p \in Workers :
        /\ req[p].handler = "stripe_webhook"
        /\ req[p].event = Without(Checkout(1, "premium", "sub_A"), "subscription")
        /\ req[p].response.status_code = 500
        /\ subscriptions[RowOf(1)].plan = "basic"
        /\ subscriptions[RowOf(1)].status = "past_due"

(* The plan create_api_key goes by for user u: the plan of u's              *)
(* subscription, free without one.                                          *)
PlanOf(u) ==
    IF ByUserId(subscriptions, u) = {} THEN "free"
    ELSE subscriptions[RowOf(u)].plan

ActiveCount(rows, u) == Cardinality(ActiveKeys(rows, u))

(* C15: create_api_key succeeds if and only if the caller's number of       *)
(* active keys is below the maximum of the caller's plan (a caller without  *)
(* subscription row counts as free); at the maximum it fails with 400 and   *)
(* creates no key record.                                                   *)
C15_CreateSucceedsIffBelowLimit ==
    [][\A p \in Workers :
        LET u == req[p].current_user IN
        /\ (req[p].pc = "create_count" /\ req'[p] # req[p])
            => IF ActiveCount(api_keys, u) >= max_keys(PlanOf(u))
               THEN /\ req'[p].pc = "done"
                    /\ req'[p].response.status_code = 400
                    /\ api_keys' = api_keys
               ELSE req'[p].pc = "create_insert"
        /\ Completes(p, "create_insert")
            => /\ req'[p].response.status_code = 200
               /\ Len(api_keys') = Len(api_keys) + 1
               /\ ActiveCount(api_keys', u) = ActiveCount(api_keys, u) + 1
        /\ (req[p].handler = "create_api_key" /\ req'[p] # req[p]
                /\ req'[p].response.status_code = 200)
            => ActiveCount(api_keys, u) < max_keys(PlanOf(u))]_vars

(* C16: for a user at the limit of the plan, revoking an active key lowers  *)
(* the number of active keys by one, so that the next create_api_key        *)
(* succeeds and the one after it fails with 400; revoking a key that is     *)
(* already inactive frees no slot.                                          *)
C16_RevokeFreesOneSlot ==
    [][\A p \in Workers :
        LET u == req[p].current_user
            revoked == KeysOf(api_keys, u) \ ActiveKeys(api_keys, u)
        IN
        /\ Completes(p, "delete_commit")
            => ActiveCount(api_keys', u) =
                    ActiveCount(api_keys, u)
                        - (IF api_keys[req[p].key_id].is_active THEN 1 ELSE 0)
        /\ (Completes(p, "create_insert") /\ revoked # {}
                /\ ActiveCount(api_keys, u) = max_keys(PlanOf(u)) - 1)
            => /\ req'[p].response.status_code = 200
               /\ ActiveCount(api_keys', u) = max_keys(PlanOf(u))
        /\ (req[p].pc = "create_count" /\ req'[p] # req[p] /\ revoked # {}
                /\ ActiveCount(api_keys, u) = max_keys(PlanOf(u)))
            => /\ req'[p].pc = "done"
               /\ req'[p].response.status_code = 400
               /\ api_keys' = api_keys]_vars

(* The plaintext keys issued so far. *)
Plaintexts == {ApiKey(token) : token \in 1..(MaxKeys + 1)}

(* C17: no stored APIKey row holds the plaintext key, only its SHA-256      *)
(* hash; the plaintext of a key is in the create_api_key response that      *)
(* issued it and in no other response; a listing exposes only the previews  *)
(* of the stored hashes.                                                    *)
C17_PlaintextReturnedOnce ==
    [][\A p \in Workers :
        /\ \A i \in DOMAIN api_keys' :
                /\ api_keys'[i].key_hash \notin Plaintexts
                /\ api_keys'[i].key_hash = Sha256(ApiKey(i))
        /\ Completes(p, "create_insert")
            => /\ req'[p].response.status_code = 200
               /\ ApiKey(Len(api_keys')) \in req'[p].exposed
        /\ (req'[p].exposed \cap Plaintexts # {})
            => /\ req'[p].handler = "create_api_key"
               /\ req'[p].exposed \cap Plaintexts = {ApiKey(req'[p].key_id)}
        /\ Begins(p, "get_user_api_keys")
            => req'[p].exposed \subseteq
                    {Preview(api_keys[i].key_hash) :
                        i \in KeysOf(api_keys, req'[p].current_user)}]_vars

(* C18: delete_api_key fails with 404 and changes no key when the key id    *)
(* does not exist or belongs to another user; otherwise it only sets that   *)
(* key's is_active to false: the row stays stored, every other key is       *)
(* unchanged and every usage record is kept.                                *)
C18_DeleteApiKey ==
    [][\A p \in Workers :
        /\ Begins(p, "delete_api_key")
            => LET u == req'[p].current_user
                   k == req'[p].key_id
               IN /\ api_keys' = api_keys /\ usage' = usage
                  /\ IF k \notin DOMAIN api_keys \/ api_keys[k].user_id # u
                     THEN /\ req'[p].pc = "done"
                          /\ req'[p].response = Response(404, "API key not found")
                     ELSE req'[p].pc = "delete_commit"
        /\ (req[p].handler = "delete_api_key" /\ req[p].pc # "done"
                /\ req'[p] # req[p])
            => /\ req'[p].response.status_code = 200
               /\ api_keys[req[p].key_id].user_id = req[p].current_user
               /\ api_keys' = [api_keys EXCEPT ![req[p].key_id].is_active = FALSE]
               /\ Len(api_keys') = Len(api_keys)
               /\ usage' = usage
               /\ subscriptions' = subscriptions]_vars

(* A key that a usage record refers to was revoked while another key is     *)
(* active, and the record is still there.                                   *)
C18_Witness ==
    \E p \in Workers : \E i \in DOMAIN usage : \E j \in DOMAIN api_keys :
        /\ req[p].handler = "delete_api_key"
        /\ req[p].response = Response(200, "API key deleted successfully")
        /\ req[p].key_id \in DOMAIN api_keys
        /\ ~api_keys[req[p].key_id].is_active
        /\ usage[i].api_key_id = req[p].key_id
        /\ j # req[p].key_id /\ api_keys[j].is_active

(* The calendar month of day t as a half-open interval of days. *)
MonthStart(t) == t - (t % DaysPerMonth)
MonthEnd(t) == MonthStart(t) + DaysPerMonth

CountInWindow(rows, u, start, end) ==
    Cardinality({i \in DOMAIN rows :
        /\ rows[i].user_id = u
        /\ start <= rows[i].timestamp
        /\ rows[i].timestamp < end})

(* C19: the current-month usage count reported for a user is the number of  *)
(* records of that user with monthStart <= timestamp < monthEnd for the     *)
(* current calendar month; records of other users and records outside the   *)
(* interval are not counted.                                                *)
C19_CountInCurrentMonth ==
    [][\A p \in Workers :
        Completes(p, "usage_count")
        => req'[p].report.current_usage =
                CountInWindow(usage, req[p].current_user,
                              MonthStart(now), MonthEnd(now))]_vars

(* A report counted some records of user 1 while the table also holds a     *)
(* record of user 1 from the same month of the year before and a record of  *)
(* user 2 from the current month.                                           *)
C19_Witness ==
    \E p \in Workers :
        /\ req[p].handler = "get_subscription_usage"
        /\ req[p].response.status_code = 200
        /\ req[p].current_user = 1
        /\ req[p].report.current_usage > 0
        /\ \E i \in DOMAIN usage :
                /\ usage[i].user_id = 1
                /\ usage[i].timestamp = now - MonthsPerYear * DaysPerMonth
        /\ \E j \in DOMAIN usage :
                /\ usage[j].user_id = 2
                /\ usage[j].timestamp = now
        /\ req[p].report.current_usage
                = CountInWindow(usage, 1, MonthStart(now), MonthEnd(now))

(* The remaining quota of user u as a report made now gives it: limit       *)
(* minus current_usage.                                                     *)
Remaining(u) ==
    api_calls_per_month(subscriptions[RowOf(u)].plan)
        - UsageThisMonth(usage, u, Month(now), Year(now))

(* C20: the remaining quota (limit minus current_usage of the report) is    *)
(* the plan's monthly limit minus the user's count of the current calendar  *)
(* month, 1000 minus the count on the basic plan (1 at 999 records, 0 at    *)
(* 1000); a further record of the user in the current month lowers it by    *)
(* one, a record of another user or another month leaves it.                *)
C20_RemainingQuota ==
    [][\A p \in Workers :
        /\ Completes(p, "usage_count")
            => LET u == req[p].current_user
                   remaining == req'[p].report.limit
                                    - req'[p].report.current_usage
                   count == CountInWindow(usage, u, MonthStart(now),
                                          MonthEnd(now))
               IN /\ remaining = Remaining(u)
                  /\ subscriptions[RowOf(u)].plan = "basic"
                        => /\ remaining = 1000 - count
                           /\ count = 999 => remaining = 1
                           /\ count = 1000 => remaining = 0
        /\ \A u \in {subscriptions[i].user_id : i \in DOMAIN subscriptions} :
            Len(usage') = Len(usage) + 1
            => LET r == usage'[Len(usage')] IN
               Remaining(u)' =
                    Remaining(u) -
                        (IF r.user_id = u /\ MonthStart(now) <= r.timestamp
                                /\ r.timestamp < MonthEnd(now)
                         THEN 1 ELSE 0)]_vars

(* User 1, on the basic plan, was reported 1000 calls of 1000: nothing      *)
(* remains.                                                                 *)
C20_Witness ==
    \E p \in Workers :
        /\ req[p].handler = "get_subscription_usage"
        /\ req[p].response.status_code = 200
        /\ req[p].current_user = 1
        /\ subscriptions[RowOf(1)].plan = "basic"
        /\ req[p].report = [current_usage |-> 1000, limit |-> 1000]
        /\ CountInWindow(usage, 1, MonthStart(now), MonthEnd(now)) = 1000
        /\ Len(usage) >= 1000

----------------------------------------------------------------------------
InvoiceTypes == {"invoice.payment_succeeded", "invoice.payment_failed"}

(* The step is one of worker p handling an invoice event: the query (and    *)
(* the handler's assignments) or the commit.                                *)
InvoiceStep(p) ==
    \/ Begins(p, "stripe_webhook") /\ req'[p].event.type \in InvoiceTypes
    \/ /\ req[p].pc = "webhook_commit"
       /\ req[p].event.type \in InvoiceTypes
       /\ req'[p] # req[p]

(* C21: an invoice payment-succeeded or payment-failed event for external   *)
(* subscription id x changes at most one subscription row, a row whose      *)
(* stripe_subscription_id is x, changes neither its owner, plan nor         *)
(* external ids, and leaves every other row as it is, also when the events  *)
(* of different subscriptions are handled by different workers at once.     *)
C21_InvoiceChangesOnlyItsRow ==
    [][\A p \in Workers :
        InvoiceStep(p)
        => LET x == req'[p].event.subscription
               changed == {i \in DOMAIN subscriptions :
                                subscriptions'[i] # subscriptions[i]} IN
           /\ DOMAIN subscriptions' = DOMAIN subscriptions
           /\ Cardinality(changed) <= 1
           /\ \A i \in changed :
                /\ subscriptions[i].stripe_subscription_id = x
                /\ subscriptions'[i].stripe_subscription_id = x
                /\ subscriptions'[i].user_id = subscriptions[i].user_id
                /\ subscriptions'[i].plan = subscriptions[i].plan
                /\ subscriptions'[i].stripe_customer_id
                        = subscriptions[i].stripe_customer_id]_vars

(* Worker 1 is about to commit the failed payment of sub_A while worker 2   *)
(* has committed the renewal of sub_B after worker 1 read its row: user 2's *)
(* row carries the invoice's period, user 1's row is still active.          *)
C21_Witness ==
    /\ req[1].pc = "webhook_commit"
    /\ req[1].event = Invoice("invoice.payment_failed", "sub_A", 40, 70)
    /\ req[2].pc = "done"
    /\ req[2].event = Invoice("invoice.payment_succeeded", "sub_B", 50, 80)
    /\ req[2].response.status_code = 200
    /\ subscriptions[RowOf(2)].current_period_end = At(80)
    /\ subscriptions[RowOf(2)].plan = "premium"
    /\ subscriptions[RowOf(1)].status = "active"
    /\ subscriptions[RowOf(1)].stripe_subscription_id = "sub_A"

----------------------------------------------------------------------------
(* Worker p's reactivate_subscription request ends in this step; the rows   *)
(* of before_cancel' are those whose cancel was the request before it.      *)
ReactivateEnds(p) ==
    /\ req'[p] # req[p]
    /\ req'[p].handler = "reactivate_subscription"
    /\ req'[p].pc = "done"

(* C22 as stated: after a successful cancel_subscription, the same user's   *)
(* reactivate_subscription with no other operation in between always        *)
(* succeeds and leaves the subscription exactly as it was stored before    *)
(* the cancel.                                                              *)
C22_CancelIsReversible ==
    [][\A p \in Workers : \A b \in before_cancel' :
        (ReactivateEnds(p) /\ req'[p].current_user = b.user_id)
        => /\ req'[p].response.status_code = 200
           /\ \A i \in ByUserId(subscriptions', b.user_id) :
                    subscriptions'[i] = b]_vars

(* C22 amended: such a reactivate_subscription passes the status check;     *)
(* it answers 400 and leaves the row cancelled when its payment processor   *)
(* call fails; otherwise it succeeds and leaves the row with status active  *)
(* and every other column as before the cancel, which is exactly the row    *)
(* before the cancel when its status then was active.                       *)
C22_ReactivateRestoresActive ==
    [][\A p \in Workers : \A b \in before_cancel' :
        (ReactivateEnds(p) /\ req'[p].current_user = b.user_id)
        => \A i \in ByUserId(subscriptions', b.user_id) :
            \/ /\ req[p].pc = "reactivate_stripe"
               /\ req'[p].response = Response(400, "Stripe error")
               /\ subscriptions' = subscriptions
               /\ subscriptions'[i] = [b EXCEPT !.status = "cancelled"]
            \/ /\ req[p].pc = "reactivate_commit"
               /\ req'[p].response.status_code = 200
               /\ subscriptions'[i] = [b EXCEPT !.status = "active"]
               /\ b.status = "active" => subscriptions'[i] = b]_vars

(* User 1, on basic with a renewed period, cancelled and then reactivated:  *)
(* the row is again what it was before the cancel.                          *)
C22_Witness ==
    /\ req[1].handler = "reactivate_subscription"
    /\ req[1].pc = "done"
    /\ req[1].response.status_code = 200
    /\ \E b \in before_cancel :
        /\ b.user_id = 1 /\ b.plan = "basic" /\ b.status = "active"
        /\ b.stripe_subscription_id = "sub_A"
        /\ b.current_period_end = At(70)
        /\ subscriptions[RowOf(1)] = b

----------------------------------------------------------------------------
(* C23: when the payment processor call of cancel_subscription or of        *)
(* reactivate_subscription fails, the call returns HTTP 400 and no          *)
(* subscription row is written: the caller's row is as the call found it,   *)
(* its status neither cancelled by the cancel nor active by the reactivate. *)
C23_ProcessorFailureChangesNothing ==
    [][\A p \in Workers :
        (Completes(p, "cancel_stripe") \/ Completes(p, "reactivate_stripe"))
        => /\ req[p].stripe_called = FALSE /\ req'[p].stripe_called = TRUE
           /\ req'[p].response = Response(400, "Stripe error")
           /\ subscriptions' = subscriptions
           /\ subscriptions'[req[p].row] = req[p].subscription
           /\ req[p].pc = "cancel_stripe"
                => subscriptions'[req[p].row].plan # "free"
           /\ req[p].pc = "reactivate_stripe"
                => subscriptions'[req[p].row].status = "cancelled"]_vars

(* User 1's cancel on basic was answered 400 after the processor refused,   *)
(* and the row is still active.                                             *)
C23_Witness ==
    /\ req[1].handler = "cancel_subscription"
    /\ req[1].pc = "done"
    /\ req[1].stripe_called
    /\ req[1].response = Response(400, "Stripe error")
    /\ req[1].current_user = 1
    /\ subscriptions[RowOf(1)].plan = "basic"
    /\ subscriptions[RowOf(1)].status = "active"
    /\ subscriptions[RowOf(1)].stripe_subscription_id = "sub_A"

----------------------------------------------------------------------------
(* C24: in every reachable state the number of active API keys of a user    *)
(* is at most the maximum of the user's current plan, whatever the          *)
(* interleaving of the user's concurrent create_api_key calls and also      *)
(* after a checkout-completed event changed the plan.                       *)
C24_ActiveKeysWithinPlan ==
    \A u \in DOMAIN users : ActiveCount(api_keys, u) <= max_keys(PlanOf(u))

----------------------------------------------------------------------------
(* The columns in which the two rows differ.                                *)
Differing(row, other) == {c \in Columns : row[c] # other[c]}

====
